---- MODULE Spec2Model ----
(***************************************************************************)
(* Model of the authenticated-request executors of the QuickBooks and      *)
(* Microsoft MCP agents: QuickBooksService.makeRequest,                    *)
(* MicrosoftService.makeRequest / makeRequestIgnoreResponse and their      *)
(* refreshAccessToken, driven by the tool handlers of one agent session.   *)
(*                                                                         *)
(* One agent session holds props {accessToken, refreshToken}.  Every tool  *)
(* invocation builds a fresh service object from props (the                *)
(* quickBooksService / microsoftService getters) and runs one executor     *)
(* call on it.  Execution is single-threaded and cooperative: an action    *)
(* of the model is the code that runs between two awaits; invocations      *)
(* interleave at the awaits (the network calls).                           *)
(***************************************************************************)
EXTENDS Integers, Sequences, FiniteSets, TLC

(* ------------------------------ bounds --------------------------------- *)

\* number of tool invocations of the session that the model follows
MaxInv == 2

\* number of refresh calls of the session that the model follows (the
\* recursion of QuickBooksService.makeRequest has no bound of its own)
MaxRefresh == 3

Invs == 1..MaxInv

(* --------------------------- values on the wire ------------------------ *)

\* a JavaScript undefined (an absent JSON member)
Undefined == "<undefined>"

\* status recorded for a fetch() that rejected (no HTTP response at all)
NetErr == 0

\* the access / refresh token the vendor hands out on the k-th refresh of
\* invocation i: every grant is a fresh token
VendorAccessToken(i, k) == "A" \o ToString(i) \o "." \o ToString(k)
VendorRefreshToken(i, k) == "R" \o ToString(i) \o "." \o ToString(k)

\* responses of the resource API: status, statusText and body ("" is an
\* empty body, which is not JSON)
UpstreamResponses ==
    { [status |-> 200, statusText |-> "OK",           body |-> "{data}"],
      [status |-> 204, statusText |-> "No Content",   body |-> ""],
      [status |-> 401, statusText |-> "Unauthorized", body |-> "{error}"],
      [status |-> 403, statusText |-> "Forbidden",    body |-> "{error}"],
      [status |-> 500, statusText |-> "",             body |-> ""] }

\* responses of the vendor token endpoint to the k-th refresh of invocation i
TokenResponses(i, k) ==
    { [status |-> 200, access_token |-> VendorAccessToken(i, k),
       refresh_token |-> rt, text |-> "{token}"] :
         rt \in {Undefined, "", VendorRefreshToken(i, k)} }
    \cup
    { [status |-> 400, access_token |-> Undefined,
       refresh_token |-> Undefined, text |-> "{invalid_grant}"] }

\* the token response slot of a refresh whose fetch() rejected
NoTokenResponse ==
    [status |-> NetErr, access_token |-> Undefined,
     refresh_token |-> Undefined, text |-> ""]

NoResponse == [status |-> NetErr, statusText |-> "", body |-> ""]

(* ------------------------------ agents --------------------------------- *)

Agents == {"QuickBooksMCP", "MicrosoftMCP"}

\* the tools of an agent that run exactly one executor call
Tools(a) ==
    IF a = "QuickBooksMCP"
    THEN {"getCompanyInfo"}
    ELSE {"getCalendarEvent", "deleteCalendarEvent"}

\* the executor a tool's service operation runs on
Executor(a, t) ==
    IF a = "QuickBooksMCP" THEN "QuickBooksService.makeRequest"
    ELSE IF t = "deleteCalendarEvent"
         THEN "MicrosoftService.makeRequestIgnoreResponse"
         ELSE "MicrosoftService.makeRequest"

(* ------------------------------ state ---------------------------------- *)

VARIABLES
    agent,      \* the agent class of the session
    props,      \* this.props: the session's {accessToken, refreshToken}
    pc,         \* per invocation: where its executor call is suspended
    tool,       \* per invocation: the tool invoked
    svc,        \* per invocation: its service object's accessToken/refreshToken
    bearers,    \* per invocation: Bearer tokens of the upstream requests issued
    statuses,   \* per invocation: statuses of the upstream answers received
    res,        \* per invocation: the last upstream response received
    rtSent,     \* per invocation: refresh tokens sent to the token endpoint
    tokenRes,   \* per invocation: the last token-endpoint response received
    result,     \* per invocation: the outcome of the executor call
    rejected,   \* access tokens answered 401 since the session's last
                \* successful refresh
    \* getUserCalendarEvents (run as invocation 1 of a MicrosoftMCP session)
    chain,      \* the upstream's pages: rows and next-page link of each
    url,        \* the loop variable url: the page to request, 0 = undefined
    events,     \* the accumulator events
    calls,      \* the pages makeRequest was called for, in call order
    \* the tool-call boundary (/sse/*, /mcp) of a session
    request,    \* the HTTP request being served: headers, tool, arguments
    stage,      \* how far the request got
    http,       \* the status of the HTTP response, 0 = none yet
    envelope,   \* the tool result returned for the request
    prev,       \* how the session's previous request ended
    served,     \* the number of requests the session has finished
    \* POST /token
    tokenReq,   \* the parsed form body of the request
    tokenPc,    \* where the route is: "idle", "exchange" or "done"
    vendorReq,  \* the form sent to the vendor token endpoint
    vendorCalls,\* the number of requests sent to the vendor token endpoint
    vendorRes,  \* the vendor's answer
    reply,      \* the response of the route
    \* GET /authorize
    authReq,    \* the query of the inbound request: <<key, value>> pairs
    authStatus, \* the status of the response, 0 = none yet
    location,   \* the query of the URL the response redirects to
    \* the QuickBooks query tools (run as invocation 1 of a session)
    qArgs,      \* the validated arguments {page, pageSize} of the call
    query,      \* the query string of the upstream request
    upstream,   \* the body the upstream answers a 200 with
    payload     \* the data the handler passes to formatResponse

execVars == <<agent, props, pc, tool, svc, bearers, statuses, res, rtSent,
              tokenRes, result, rejected>>

pagerVars == <<chain, url, events, calls>>

\* the variables the executor actions leave alone
boundaryVars == <<request, stage, http, envelope, prev, served>>

tokenVars == <<tokenReq, tokenPc, vendorReq, vendorCalls, vendorRes, reply>>

authorizeVars == <<authReq, authStatus, location>>

queryVars == <<qArgs, query, upstream, payload>>

\* the variables of the routes and operations modelled after POST /token
restVars == <<authorizeVars, queryVars>>

otherVars == <<pagerVars, boundaryVars, tokenVars, restVars>>

vars == <<execVars, otherVars>>

nFetch(i) == Len(bearers[i])
nRefresh(i) == Len(rtSent[i])

\* refresh calls issued so far by the invocations 1..n, and by the session
RECURSIVE SumRefresh(_)
SumRefresh(n) == IF n = 0 THEN 0 ELSE Len(rtSent[n]) + SumRefresh(n - 1)
TotalRefresh == SumRefresh(MaxInv)

(* ----------------------- helpers translated from code ------------------ *)

\* new XService(env, props.accessToken, props.refreshToken)
NewService(p) ==
    [accessToken |-> p.accessToken, refreshToken |-> p.refreshToken]

\* a request built from the session's token instead of the service's
AuthorizationStale(s) == props.accessToken

\* Authorization: `Bearer ${this.accessToken}`
Authorization(s) == s.accessToken

\* Response.ok
ok(r) == r.status \in 200..299

\* a refresh triggered by 403 as well as by 401
IsUnauthorizedOrForbidden(r) == r.status \in {401, 403}

\* res.status === 401
IsUnauthorized(r) == r.status = 401

\* a refreshAccessToken that does not look at the status of the answer
RefreshUnchecked(t) == TRUE

\* the `if (!res.ok) throw` of refreshAccessToken, negated
RefreshOk(t) == ok(t)

\* JavaScript truthiness of an optional string
Truthy(v) == v # Undefined /\ v # ""

\* res.json() resolves (FALSE: it rejects with a SyntaxError)
IsJson(body) == body # ""

\* a refresh that stores refresh_token whether or not one was returned
ApplyTokenResponseAlways(s, t) ==
    [accessToken |-> t.access_token, refreshToken |-> t.refresh_token]

\* this.accessToken = access_token;
\* if (refresh_token) this.refreshToken = refresh_token;
ApplyTokenResponse(s, t) ==
    [accessToken  |-> t.access_token,
     refreshToken |-> IF Truthy(t.refresh_token) THEN t.refresh_token
                      ELSE s.refreshToken]

\* outcomes of an executor call
Value(v) == [kind |-> "value", name |-> "", status |-> 0, text |-> v]
Void == Value(Undefined)
NoResult == [kind |-> "none", name |-> "", status |-> 0, text |-> ""]

\* throw new Error(`<vendor> API error: ${status} ${statusText}`)
ApiError(a, r) ==
    [kind |-> "error",
     name |-> IF a = "QuickBooksMCP" THEN "QuickBooks API error"
              ELSE "Microsoft API error",
     status |-> r.status, text |-> r.statusText]

\* throw new Error(`Failed to refresh access token: ${await res.text()}`)
RefreshError(t) ==
    [kind |-> "error", name |-> "Failed to refresh access token",
     status |-> 0, text |-> t.text]

\* the TypeError of a rejected fetch()
FetchError == [kind |-> "error", name |-> "TypeError", status |-> 0,
               text |-> "fetch failed"]

\* the SyntaxError of a rejected res.json()
JsonError == [kind |-> "error", name |-> "SyntaxError", status |-> 0,
              text |-> "Unexpected end of JSON input"]

\* res.json() of a response, as the outcome of the call
JsonOutcome(r) == IF IsJson(r.body) THEN Value(r.body) ELSE JsonError

(* ------------------------------- Init ---------------------------------- *)

\* no getUserCalendarEvents is running
PagerIdle == chain = <<>> /\ url = 0 /\ events = <<>> /\ calls = <<>>

\* a tool argument as it arrives: its JSON type and its text
ArgValue(type, value) == [type |-> type, value |-> value]
NoArgs == [eventId |-> ArgValue("undefined", "")]
NoRequest == [authorization |-> Undefined, refreshHeader |-> Undefined,
              tool |-> "", args |-> NoArgs]
NoEnvelope == [kind |-> "none", text |-> ""]

\* the parameters of a token request, Undefined where one is absent
NoForm == [grant_type |-> Undefined, code |-> Undefined,
           redirect_uri |-> Undefined, scope |-> Undefined,
           code_verifier |-> Undefined, refresh_token |-> Undefined]
NoVendorResponse == [status |-> NetErr, json |-> FALSE, text |-> ""]
NoReply == [status |-> 0, body |-> ""]

AuthorizeIdle == authReq = <<>> /\ authStatus = 0 /\ location = <<>>

NoQueryArgs == [page |-> 0, pageSize |-> 0]
\* a JSON array member of a body, or its absence
Arr(rows) == [defined |-> TRUE, rows |-> rows]
NoArr == [defined |-> FALSE, rows |-> <<>>]
\* a JSON body without a QueryResponse member
NoBody == [hasQueryResponse |-> FALSE, Invoice |-> NoArr, Customer |-> NoArr]
\* what a handler passes to formatResponse: a whole body or a row array
NoPayload == [kind |-> "none", rows |-> NoArr, body |-> NoBody]
BodyPayload(b) == [kind |-> "body", rows |-> NoArr, body |-> b]
RowsPayload(a) == [kind |-> "rows", rows |-> a, body |-> NoBody]

QueryIdle ==
    /\ qArgs = NoQueryArgs
    /\ query = ""
    /\ upstream = NoBody
    /\ payload = NoPayload

RestIdle == AuthorizeIdle /\ QueryIdle

TokenIdle ==
    /\ tokenReq = NoForm
    /\ tokenPc = "idle"
    /\ vendorReq = NoForm
    /\ vendorCalls = 0
    /\ vendorRes = NoVendorResponse
    /\ reply = NoReply

BoundaryIdle ==
    /\ request = NoRequest
    /\ stage = "idle"
    /\ http = 0
    /\ envelope = NoEnvelope
    /\ prev = "none"
    /\ served = 0

Init ==
    /\ agent \in Agents
    /\ props = [accessToken |-> "A0", refreshToken |-> "R0"]
    /\ pc = [i \in Invs |-> "idle"]
    /\ tool = [i \in Invs |-> ""]
    /\ svc = [i \in Invs |-> NewService(props)]
    /\ bearers = [i \in Invs |-> <<>>]
    /\ statuses = [i \in Invs |-> <<>>]
    /\ res = [i \in Invs |-> NoResponse]
    /\ rtSent = [i \in Invs |-> <<>>]
    /\ tokenRes = [i \in Invs |-> NoTokenResponse]
    /\ result = [i \in Invs |-> NoResult]
    /\ rejected = {}
    /\ PagerIdle
    /\ BoundaryIdle
    /\ TokenIdle
    /\ RestIdle

(* ------------------------------ actions -------------------------------- *)

\* A tool handler starts: the service getter builds a new service from
\* this.props and the service operation calls the executor, which issues the
\* original request and suspends on it.  Invocations are numbered in the
\* order in which they arrive.
Invoke(i, t) ==
    /\ pc[i] = "idle"
    /\ i > 1 => pc[i - 1] # "idle"
    /\ t \in Tools(agent)
    /\ tool' = [tool EXCEPT ![i] = t]
    /\ svc' = [svc EXCEPT ![i] = NewService(props)]
    /\ bearers' = [bearers EXCEPT ![i] = Append(@, Authorization(svc'[i]))]
    /\ pc' = [pc EXCEPT ![i] = "fetch"]
    /\ UNCHANGED otherVars
    /\ UNCHANGED <<agent, props, statuses, res, rtSent, tokenRes, result,
                   rejected>>

\* The fetch of makeRequest / makeRequestIgnoreResponse resolves with
\* response r and the executor runs up to its next await or to its end.
FetchResolves(i, r) ==
    /\ pc[i] = "fetch"
    /\ r \in UpstreamResponses
    /\ statuses' = [statuses EXCEPT ![i] = Append(@, r.status)]
    /\ res' = [res EXCEPT ![i] = r]
    /\ IF IsUnauthorized(r)
       THEN \* await this.refreshAccessToken(): POST to the token endpoint
            /\ TotalRefresh < MaxRefresh
            /\ rtSent' = [rtSent EXCEPT ![i] = Append(@, svc[i].refreshToken)]
            /\ pc' = [pc EXCEPT ![i] = "refresh"]
            /\ rejected' = rejected \cup {bearers[i][nFetch(i)]}
            /\ UNCHANGED result
       ELSE /\ IF ~ok(r)
               THEN result' = [result EXCEPT ![i] = ApiError(agent, r)]
               ELSE IF Executor(agent, tool[i])
                         = "MicrosoftService.makeRequestIgnoreResponse"
                    THEN result' = [result EXCEPT ![i] = Void]
                    ELSE result' = [result EXCEPT ![i] = JsonOutcome(r)]
            /\ pc' = [pc EXCEPT ![i] =
                        IF result'[i].kind = "value" THEN "returned"
                        ELSE "thrown"]
            /\ UNCHANGED <<rtSent, rejected>>
    /\ UNCHANGED otherVars
    /\ UNCHANGED <<agent, props, tool, svc, bearers, tokenRes>>

\* a transport failure handled like a 401: the executor refreshes
FetchRejectsRefreshes(i) ==
    /\ pc[i] = "fetch"
    /\ TotalRefresh < MaxRefresh
    /\ statuses' = [statuses EXCEPT ![i] = Append(@, NetErr)]
    /\ res' = [res EXCEPT ![i] = NoResponse]
    /\ rtSent' = [rtSent EXCEPT ![i] = Append(@, svc[i].refreshToken)]
    /\ pc' = [pc EXCEPT ![i] = "refresh"]
    /\ UNCHANGED otherVars
    /\ UNCHANGED <<agent, props, tool, svc, bearers, tokenRes, result,
                   rejected>>

\* The fetch of the original request (or of a recursive makeRequest)
\* rejects: the await throws and the executor call fails.
FetchRejects(i) ==
    /\ pc[i] = "fetch"
    /\ statuses' = [statuses EXCEPT ![i] = Append(@, NetErr)]
    /\ res' = [res EXCEPT ![i] = NoResponse]
    /\ result' = [result EXCEPT ![i] = FetchError]
    /\ pc' = [pc EXCEPT ![i] = "thrown"]
    /\ UNCHANGED otherVars
    /\ UNCHANGED <<agent, props, tool, svc, bearers, rtSent, tokenRes,
                   rejected>>

\* The token endpoint answers the refresh request of invocation i with t.
\* On success the service's tokens are replaced and the request is issued
\* again: by a recursive makeRequest (QuickBooks) or by the retry fetch
\* (Microsoft).
RefreshResolves(i, t) ==
    /\ pc[i] = "refresh"
    /\ t \in TokenResponses(i, nRefresh(i))
    /\ tokenRes' = [tokenRes EXCEPT ![i] = t]
    /\ IF ~RefreshOk(t)
       THEN /\ result' = [result EXCEPT ![i] = RefreshError(t)]
            /\ pc' = [pc EXCEPT ![i] = "thrown"]
            /\ UNCHANGED <<svc, bearers, rejected>>
       ELSE /\ svc' = [svc EXCEPT ![i] = ApplyTokenResponse(@, t)]
            /\ bearers' = [bearers EXCEPT ![i] =
                             Append(@, Authorization(svc'[i]))]
            /\ pc' = [pc EXCEPT ![i] =
                        IF agent = "QuickBooksMCP" THEN "fetch" ELSE "retry"]
            /\ rejected' = {}
            /\ UNCHANGED result
    /\ UNCHANGED otherVars
    /\ UNCHANGED <<agent, props, tool, statuses, res, rtSent>>

\* The fetch of the refresh request rejects: refreshAccessToken throws.
RefreshRejects(i) ==
    /\ pc[i] = "refresh"
    /\ tokenRes' = [tokenRes EXCEPT ![i] = NoTokenResponse]
    /\ result' = [result EXCEPT ![i] = FetchError]
    /\ pc' = [pc EXCEPT ![i] = "thrown"]
    /\ UNCHANGED otherVars
    /\ UNCHANGED <<agent, props, tool, svc, bearers, statuses, res, rtSent,
                   rejected>>

\* The retry fetch of the Microsoft executors resolves with r:
\* `.then((res) => res.json())`, whatever the status of r.
RetryResolves(i, r) ==
    /\ pc[i] = "retry"
    /\ r \in UpstreamResponses
    /\ statuses' = [statuses EXCEPT ![i] = Append(@, r.status)]
    /\ res' = [res EXCEPT ![i] = r]
    /\ result' = [result EXCEPT ![i] = JsonOutcome(r)]
    /\ pc' = [pc EXCEPT ![i] =
                IF result'[i].kind = "value" THEN "returned" ELSE "thrown"]
    /\ rejected' = IF r.status = 401
                   THEN rejected \cup {bearers[i][nFetch(i)]}
                   ELSE rejected
    /\ UNCHANGED otherVars
    /\ UNCHANGED <<agent, props, tool, svc, bearers, rtSent, tokenRes>>

\* The retry fetch of the Microsoft executors rejects.
RetryRejects(i) ==
    /\ pc[i] = "retry"
    /\ statuses' = [statuses EXCEPT ![i] = Append(@, NetErr)]
    /\ res' = [res EXCEPT ![i] = NoResponse]
    /\ result' = [result EXCEPT ![i] = FetchError]
    /\ pc' = [pc EXCEPT ![i] = "thrown"]
    /\ UNCHANGED otherVars
    /\ UNCHANGED <<agent, props, tool, svc, bearers, rtSent, tokenRes,
                   rejected>>

Next ==
    \/ \E i \in Invs, t \in Tools(agent) : Invoke(i, t)
    \/ \E i \in Invs, r \in UpstreamResponses : FetchResolves(i, r)
    \/ \E i \in Invs : FetchRejects(i)
    \/ \E i \in Invs : \E t \in TokenResponses(i, nRefresh(i)) :
           RefreshResolves(i, t)
    \/ \E i \in Invs : RefreshRejects(i)
    \/ \E i \in Invs, r \in UpstreamResponses : RetryResolves(i, r)
    \/ \E i \in Invs : RetryRejects(i)

Spec == Init /\ [][Next]_vars

(* ---------------- getUserCalendarEvents: the page loop ----------------- *)

\* number of pages of the longest upstream chain
MaxPages == 3

\* a raw calendar event of a page: id and subject stand for the required
\* members of CalendarEventSchema, extra for a member the schema does not
\* declare (Undefined: the member is absent)
RawEvent(id, subject, extra) ==
    [id |-> id, subject |-> subject, extra |-> extra]

\* z.object({...}): every required member is present
IsCalendarEvent(raw) == raw.id # Undefined /\ raw.subject # Undefined

\* a schema that lets undeclared members through (.passthrough())
CalendarEventSchemaPassthrough(raw) == raw

\* CalendarEventSchema.parse(raw) of a valid raw event: .strip() drops the
\* members the schema does not declare
CalendarEventSchemaParse(raw) == [raw EXCEPT !.extra = Undefined]

\* page.value.map((raw) => CalendarEventSchema.parse(raw))
MapParse(rows) ==
    [k \in 1..Len(rows) |-> CalendarEventSchemaParse(rows[k])]

\* some CalendarEventSchema.parse(raw) of the page throws
SomeInvalid(rows) == \E k \in 1..Len(rows) : ~IsCalendarEvent(rows[k])

\* an accumulator that puts the new page in front
PushFront(acc, rows) == rows \o acc

\* events.push(...rows)
Push(acc, rows) == acc \o rows

\* the `value` arrays the upstream serves
PageBodies ==
    { <<>>,
      << RawEvent("e1", "s1", Undefined), RawEvent("e2", "s2", "x") >>,
      << RawEvent("e2", "s2", "x"), RawEvent("e1", "s1", Undefined) >>,
      << RawEvent("e1", "s1", Undefined), RawEvent("e3", Undefined, Undefined) >> }

\* the chains of n pages in which every page but the last links to the next
LinkedChains(n) ==
    { [k \in 1..n |-> [value |-> f[k],
                       next  |-> IF k < n THEN k + 1 ELSE 0]] :
        f \in [1..n -> PageBodies] }

Chains == UNION { LinkedChains(n) : n \in 1..MaxPages }

\* the TypeError of page.value.map on a body without a value array
TypeError == [kind |-> "error", name |-> "TypeError", status |-> 0,
              text |-> "Cannot read properties of undefined"]

\* the ZodError of CalendarEventSchema.parse
ZodError == [kind |-> "error", name |-> "ZodError", status |-> 0,
             text |-> "Required"]

PagerInit ==
    /\ agent = "MicrosoftMCP"
    /\ props = [accessToken |-> "A0", refreshToken |-> "R0"]
    /\ pc = [i \in Invs |-> "idle"]
    /\ tool = [i \in Invs |-> ""]
    /\ svc = [i \in Invs |-> NewService(props)]
    /\ bearers = [i \in Invs |-> <<>>]
    /\ statuses = [i \in Invs |-> <<>>]
    /\ res = [i \in Invs |-> NoResponse]
    /\ rtSent = [i \in Invs |-> <<>>]
    /\ tokenRes = [i \in Invs |-> NoTokenResponse]
    /\ result = [i \in Invs |-> NoResult]
    /\ rejected = {}
    /\ chain \in Chains
    /\ url = 0
    /\ events = <<>>
    /\ calls = <<>>
    /\ BoundaryIdle
    /\ TokenIdle
    /\ RestIdle

\* The getUserCalendarEvents handler starts: new service from this.props,
\* url = initialUrl, events = [], and the first makeRequest issues its fetch.
GetUserCalendarEvents ==
    /\ pc[1] = "idle"
    /\ chain # <<>>
    /\ tool' = [tool EXCEPT ![1] = "getUserCalendarEvents"]
    /\ svc' = [svc EXCEPT ![1] = NewService(props)]
    /\ url' = 1
    /\ events' = <<>>
    /\ calls' = <<1>>
    /\ bearers' = [bearers EXCEPT ![1] = Append(@, Authorization(svc'[1]))]
    /\ pc' = [pc EXCEPT ![1] = "fetch"]
    /\ UNCHANGED <<agent, props, statuses, res, rtSent, tokenRes, result,
                   rejected, chain>>
    /\ UNCHANGED <<boundaryVars, tokenVars, restVars>>

\* a loop that drops a page with an invalid row and goes on to the next one
PageReturnedSkipsInvalid ==
    /\ pc[1] = "returned"
    /\ tool[1] = "getUserCalendarEvents"
    /\ IF result[1].text # "{data}"
       THEN /\ result' = [result EXCEPT ![1] = TypeError]
            /\ pc' = [pc EXCEPT ![1] = "thrown"]
            /\ UNCHANGED <<url, events, calls, bearers>>
       ELSE /\ events' = IF SomeInvalid(chain[url].value) THEN events
                         ELSE Push(events, MapParse(chain[url].value))
            /\ url' = chain[url].next
            /\ IF url' # 0
               THEN /\ calls' = Append(calls, url')
                    /\ bearers' = [bearers EXCEPT ![1] =
                                     Append(@, Authorization(svc[1]))]
                    /\ pc' = [pc EXCEPT ![1] = "fetch"]
                    /\ UNCHANGED result
               ELSE /\ pc' = [pc EXCEPT ![1] = "done"]
                    /\ result' = [result EXCEPT ![1] = Value("[events]")]
                    /\ UNCHANGED <<calls, bearers>>
    /\ UNCHANGED <<agent, props, tool, svc, statuses, res, rtSent, tokenRes,
                   rejected, chain>>
    /\ UNCHANGED <<boundaryVars, tokenVars, restVars>>

\* makeRequest returned the page of url: the rows are validated and pushed,
\* url becomes the page's next link, and the loop either calls makeRequest
\* for it or ends and returns events.
PageReturned ==
    /\ pc[1] = "returned"
    /\ tool[1] = "getUserCalendarEvents"
    /\ IF result[1].text # "{data}"
       THEN /\ result' = [result EXCEPT ![1] = TypeError]
            /\ pc' = [pc EXCEPT ![1] = "thrown"]
            /\ UNCHANGED <<url, events, calls, bearers>>
       ELSE IF SomeInvalid(chain[url].value)
       THEN /\ result' = [result EXCEPT ![1] = ZodError]
            /\ pc' = [pc EXCEPT ![1] = "thrown"]
            /\ UNCHANGED <<url, events, calls, bearers>>
       ELSE /\ events' = Push(events, MapParse(chain[url].value))
            /\ url' = chain[url].next
            /\ IF url' # 0
               THEN /\ calls' = Append(calls, url')
                    /\ bearers' = [bearers EXCEPT ![1] =
                                     Append(@, Authorization(svc[1]))]
                    /\ pc' = [pc EXCEPT ![1] = "fetch"]
                    /\ UNCHANGED result
               ELSE /\ pc' = [pc EXCEPT ![1] = "done"]
                    /\ result' = [result EXCEPT ![1] = Value("[events]")]
                    /\ UNCHANGED <<calls, bearers>>
    /\ UNCHANGED <<agent, props, tool, svc, statuses, res, rtSent, tokenRes,
                   rejected, chain>>
    /\ UNCHANGED <<boundaryVars, tokenVars, restVars>>

PagerNext ==
    \/ GetUserCalendarEvents
    \/ \E i \in Invs, r \in UpstreamResponses : FetchResolves(i, r)
    \/ \E i \in Invs : FetchRejects(i)
    \/ \E i \in Invs : \E t \in TokenResponses(i, nRefresh(i)) :
           RefreshResolves(i, t)
    \/ \E i \in Invs : RefreshRejects(i)
    \/ \E i \in Invs, r \in UpstreamResponses : RetryResolves(i, r)
    \/ \E i \in Invs : RetryRejects(i)
    \/ PageReturned

SpecPager == PagerInit /\ [][PagerNext]_vars

(* ------------- the executors without their request history ------------- *)
(* The same code as above with the history sequences (bearers, statuses,   *)
(* rtSent, rejected) left out, so that a call may go on without bound in a *)
(* finite state space.  Each network call eventually answers.              *)

\* The tool handler starts and the executor issues the original request.
LiveInvoke(i, t) ==
    /\ pc[i] = "idle"
    /\ i > 1 => pc[i - 1] # "idle"
    /\ t \in Tools(agent)
    /\ tool' = [tool EXCEPT ![i] = t]
    /\ svc' = [svc EXCEPT ![i] = NewService(props)]
    /\ pc' = [pc EXCEPT ![i] = "fetch"]
    /\ UNCHANGED otherVars
    /\ UNCHANGED <<agent, props, bearers, statuses, res, rtSent, tokenRes,
                   result, rejected>>

\* The fetch of makeRequest / makeRequestIgnoreResponse resolves with r.
LiveFetchResolves(i, r) ==
    /\ pc[i] = "fetch"
    /\ r \in UpstreamResponses
    /\ res' = [res EXCEPT ![i] = r]
    /\ IF IsUnauthorized(r)
       THEN /\ pc' = [pc EXCEPT ![i] = "refresh"]
            /\ UNCHANGED result
       ELSE /\ IF ~ok(r)
               THEN result' = [result EXCEPT ![i] = ApiError(agent, r)]
               ELSE IF Executor(agent, tool[i])
                         = "MicrosoftService.makeRequestIgnoreResponse"
                    THEN result' = [result EXCEPT ![i] = Void]
                    ELSE result' = [result EXCEPT ![i] = JsonOutcome(r)]
            /\ pc' = [pc EXCEPT ![i] =
                        IF result'[i].kind = "value" THEN "returned"
                        ELSE "thrown"]
    /\ UNCHANGED otherVars
    /\ UNCHANGED <<agent, props, tool, svc, bearers, statuses, rtSent,
                   tokenRes, rejected>>

\* A fetch of the upstream request rejects (original, recursive or retry).
LiveFetchRejects(i) ==
    /\ pc[i] \in {"fetch", "retry"}
    /\ res' = [res EXCEPT ![i] = NoResponse]
    /\ result' = [result EXCEPT ![i] = FetchError]
    /\ pc' = [pc EXCEPT ![i] = "thrown"]
    /\ UNCHANGED otherVars
    /\ UNCHANGED <<agent, props, tool, svc, bearers, statuses, rtSent,
                   tokenRes, rejected>>

\* The token endpoint answers the refresh request with t.
LiveRefreshResolves(i, t) ==
    /\ pc[i] = "refresh"
    /\ t \in TokenResponses(i, 1)
    /\ tokenRes' = [tokenRes EXCEPT ![i] = t]
    /\ IF ~RefreshOk(t)
       THEN /\ result' = [result EXCEPT ![i] = RefreshError(t)]
            /\ pc' = [pc EXCEPT ![i] = "thrown"]
            /\ UNCHANGED svc
       ELSE /\ svc' = [svc EXCEPT ![i] = ApplyTokenResponse(@, t)]
            /\ pc' = [pc EXCEPT ![i] =
                        IF agent = "QuickBooksMCP" THEN "fetch" ELSE "retry"]
            /\ UNCHANGED result
    /\ UNCHANGED otherVars
    /\ UNCHANGED <<agent, props, tool, bearers, statuses, res, rtSent,
                   rejected>>

\* The fetch of the refresh request rejects.
LiveRefreshRejects(i) ==
    /\ pc[i] = "refresh"
    /\ tokenRes' = [tokenRes EXCEPT ![i] = NoTokenResponse]
    /\ result' = [result EXCEPT ![i] = FetchError]
    /\ pc' = [pc EXCEPT ![i] = "thrown"]
    /\ UNCHANGED otherVars
    /\ UNCHANGED <<agent, props, tool, svc, bearers, statuses, res, rtSent,
                   rejected>>

\* The retry fetch of the Microsoft executors resolves with r.
LiveRetryResolves(i, r) ==
    /\ pc[i] = "retry"
    /\ r \in UpstreamResponses
    /\ res' = [res EXCEPT ![i] = r]
    /\ result' = [result EXCEPT ![i] = JsonOutcome(r)]
    /\ pc' = [pc EXCEPT ![i] =
                IF result'[i].kind = "value" THEN "returned" ELSE "thrown"]
    /\ UNCHANGED otherVars
    /\ UNCHANGED <<agent, props, tool, svc, bearers, statuses, rtSent,
                   tokenRes, rejected>>

\* the network answers the call invocation i is suspended on
LiveAnswer(i) ==
    \/ \E r \in UpstreamResponses : LiveFetchResolves(i, r)
    \/ LiveFetchRejects(i)
    \/ \E t \in TokenResponses(i, 1) : LiveRefreshResolves(i, t)
    \/ LiveRefreshRejects(i)
    \/ \E r \in UpstreamResponses : LiveRetryResolves(i, r)

LiveNext ==
    \/ \E i \in Invs, t \in Tools(agent) : LiveInvoke(i, t)
    \/ \E i \in Invs, r \in UpstreamResponses : LiveFetchResolves(i, r)
    \/ \E i \in Invs : LiveFetchRejects(i)
    \/ \E i \in Invs : \E t \in TokenResponses(i, 1) :
           LiveRefreshResolves(i, t)
    \/ \E i \in Invs : LiveRefreshRejects(i)
    \/ \E i \in Invs, r \in UpstreamResponses : LiveRetryResolves(i, r)

\* every network call eventually answers
LiveFairness == \A i \in Invs : WF_vars(LiveAnswer(i))

SpecLive == Init /\ [][LiveNext]_vars /\ LiveFairness

(* ------------------------ the tool-call boundary ----------------------- *)
(* One session whose requests are served one after the other: the bearer   *)
(* middleware, the parameter schema of the tool, the tool handler with its *)
(* executor call (invocation 1, started afresh for every request) and the  *)
(* tool result.                                                            *)

MaxCalls == 2

\* s.startsWith(p) and s.slice(n)
StartsWithPadded(s, p) == Len(s \o " ") >= Len(p) /\ SubSeq(s \o " ", 1, Len(p)) = p
StartsWith(s, p) == Len(s) >= Len(p) /\ SubSeq(s, 1, Len(p)) = p
Slice(s, n) == SubSeq(s, n + 1, Len(s))

\* c.req.header(name) ?? ""
OrEmpty(h) == IF h = Undefined THEN "" ELSE h

\* Authorization header values a client may send
MalformedAuthorizations ==
    {Undefined, "", "Basic QTA=", "bearer A0", "Bearer", "BearerA0"}
BearerAuthorizations == {"Bearer A0", "Bearer X9"}
AuthorizationHeaders == MalformedAuthorizations \cup BearerAuthorizations

\* X-QuickBooks-Refresh-Token / X-Microsoft-Refresh-Token header values
RefreshTokenHeaders == {Undefined, "", "R0"}

\* c.executionCtx.props before the middleware has set it
NoProps == [accessToken |-> Undefined, refreshToken |-> Undefined]

\* the arguments a client may send with a call of tool t
ArgsOf(t) ==
    IF t = "getCompanyInfo" THEN {NoArgs}
    ELSE {[eventId |-> v] : v \in {ArgValue("undefined", ""),
                                   ArgValue("string", "E1"),
                                   ArgValue("number", "7")}}

\* the parameter schema declared with the tool: { eventId: z.string() } for
\* getCalendarEvent and deleteCalendarEvent, none for getCompanyInfo
SchemaAcceptsAny(t, a) == TRUE
SchemaAccepts(t, a) ==
    t \in {"getCalendarEvent", "deleteCalendarEvent"}
        => a.eventId.type = "string"

\* the description a handler passes to formatResponse
Description(t) ==
    CASE t = "getCompanyInfo" -> "Company info retrieved"
      [] t = "getCalendarEvent" -> "Calendar event retrieved"
      [] t = "deleteCalendarEvent" -> "Calendar event deleted"
      [] OTHER -> ""

\* formatResponse(description, data); data stands for its pretty-printed JSON
formatResponse(description, data) ==
    [kind |-> "success",
     text |-> "Success! " \o description \o "\n\nResult:\n" \o data]

\* the message of the Error an executor call throws
Message(r) ==
    IF r.status # 0
    THEN r.name \o ": " \o ToString(r.status) \o " " \o r.text
    ELSE IF r.name \in {"TypeError", "SyntaxError"} THEN r.text
    ELSE r.name \o ": " \o r.text

\* A tool handler: it awaits the service operation and returns
\* formatResponse of its data; an error of the operation propagates.
ToolHandlerCatches(t, a, r) ==
    [kind |-> "return",
     value |-> formatResponse(Description(t), r.text), message |-> ""]
ToolHandler(t, a, r) ==
    IF r.kind = "value"
    THEN [kind |-> "return",
          value |-> formatResponse(Description(t),
                       IF t = "deleteCalendarEvent"
                       THEN "{eventId: " \o a.eventId.value \o "}"
                       ELSE r.text),
          message |-> ""]
    ELSE [kind |-> "throw", value |-> NoEnvelope, message |-> Message(r)]

\* the tool-level failure result
ToolError(message) == [kind |-> "failure", text |-> message]

\* The tool bridge around a handler: what the handler returns is the result,
\* what it throws becomes a tool-level failure result.
CallToolResult(h) ==
    IF h.kind = "return" THEN h.value ELSE ToolError(h.message)

BoundaryInit ==
    /\ agent \in Agents
    /\ props = NoProps
    /\ pc = [i \in Invs |-> "idle"]
    /\ tool = [i \in Invs |-> ""]
    /\ svc = [i \in Invs |-> NewService(props)]
    /\ bearers = [i \in Invs |-> <<>>]
    /\ statuses = [i \in Invs |-> <<>>]
    /\ res = [i \in Invs |-> NoResponse]
    /\ rtSent = [i \in Invs |-> <<>>]
    /\ tokenRes = [i \in Invs |-> NoTokenResponse]
    /\ result = [i \in Invs |-> NoResult]
    /\ rejected = {}
    /\ PagerIdle
    /\ BoundaryIdle
    /\ TokenIdle
    /\ RestIdle

\* A tool call arrives at /mcp or /sse with Authorization header h and
\* refresh-token header x, for tool t with arguments a.  The middleware
\* answers 401 or sets the props and calls next(); the arguments are then
\* validated against the tool's schema.
ToolCallRequest(h, x, t, a) ==
    /\ stage \in {"idle", "unauthorized", "invalid", "enveloped"}
    /\ served < MaxCalls
    /\ t \in Tools(agent)
    /\ a \in ArgsOf(t)
    /\ request' = [authorization |-> h, refreshHeader |-> x, tool |-> t,
                   args |-> a]
    /\ prev' = IF stage = "idle" THEN "none"
               ELSE IF stage = "enveloped" THEN envelope.kind ELSE stage
    /\ served' = served + 1
    /\ pc' = [pc EXCEPT ![1] = "idle"]
    /\ tool' = [tool EXCEPT ![1] = ""]
    /\ bearers' = [bearers EXCEPT ![1] = <<>>]
    /\ statuses' = [statuses EXCEPT ![1] = <<>>]
    /\ res' = [res EXCEPT ![1] = NoResponse]
    /\ rtSent' = [rtSent EXCEPT ![1] = <<>>]
    /\ tokenRes' = [tokenRes EXCEPT ![1] = NoTokenResponse]
    /\ result' = [result EXCEPT ![1] = NoResult]
    /\ rejected' = {}
    /\ IF ~StartsWith(OrEmpty(h), "Bearer ")
       THEN /\ http' = 401
            /\ stage' = "unauthorized"
            /\ props' = NoProps
            /\ envelope' = NoEnvelope
       ELSE /\ props' = [accessToken |-> Slice(OrEmpty(h), 7),
                         refreshToken |-> OrEmpty(x)]
            /\ IF ~SchemaAccepts(t, a)
               THEN /\ http' = 200
                    /\ stage' = "invalid"
                    /\ envelope' = ToolError("Invalid arguments for tool "
                                             \o t)
               ELSE /\ http' = 0
                    /\ stage' = "validated"
                    /\ envelope' = NoEnvelope
    /\ svc' = [svc EXCEPT ![1] = NewService(props')]
    /\ UNCHANGED <<agent, pagerVars, tokenVars, restVars>>

\* The handler of the validated call starts.
HandlerStarts ==
    /\ stage = "validated"
    /\ Invoke(1, request.tool)

\* The handler has returned or thrown: the tool result is sent.
Enveloped ==
    /\ stage = "validated"
    /\ pc[1] \in {"returned", "thrown"}
    /\ envelope' = CallToolResult(ToolHandler(request.tool, request.args,
                                              result[1]))
    /\ stage' = "enveloped"
    /\ http' = 200
    /\ UNCHANGED <<execVars, pagerVars, tokenVars, restVars, request, prev,
                   served>>

BoundaryNext ==
    \/ \E h \in AuthorizationHeaders, x \in RefreshTokenHeaders :
           \E t \in Tools(agent) : \E a \in ArgsOf(t) :
               ToolCallRequest(h, x, t, a)
    \/ HandlerStarts
    \/ \E i \in Invs, r \in UpstreamResponses : FetchResolves(i, r)
    \/ \E i \in Invs : FetchRejects(i)
    \/ \E i \in Invs : \E t \in TokenResponses(i, nRefresh(i)) :
           RefreshResolves(i, t)
    \/ \E i \in Invs : RefreshRejects(i)
    \/ \E i \in Invs, r \in UpstreamResponses : RetryResolves(i, r)
    \/ \E i \in Invs : RetryRejects(i)
    \/ Enveloped

SpecBoundary == BoundaryInit /\ [][BoundaryNext]_vars

(* ------------------------------ POST /token ---------------------------- *)
(* The route serves one request after the other; its only suspension is    *)
(* the request to the vendor token endpoint.                                *)

\* the form bodies a client may post (c.req.parseBody())
GrantTypes ==
    {Undefined, "authorization_code", "refresh_token", "client_credentials"}
CodeVerifiers == {Undefined, "", "dBjftJeZ4CVP-mB92K27uhbUJU1p1r_wW1gFWFOEjXk"}
TokenForms ==
    [grant_type : GrantTypes, code : {"c0de"},
     redirect_uri : {"https://client/cb"}, scope : {Undefined, "openid"},
     code_verifier : CodeVerifiers, refresh_token : {Undefined, "R0"}]

\* the answers of the vendor token endpoint: status, whether the
\* content-type includes application/json, and the body text
VendorStatuses == {200, 400, 401, 402, 418, 429, 500, 503, 599}
VendorResponses ==
    [status : VendorStatuses, json : BOOLEAN,
     text : {"{token}", "{invalid_grant}", "null", "<html>"}]

allowedStatuses ==
    {400, 401, 403, 404, 405, 409, 410, 415, 422, 429, 500, 502, 503, 504}

\* QUICKBOOKS_DEFAULT_SCOPES.join(" ")
DefaultScopes == "com.intuit.quickbooks.accounting"

\* form(params): only the truthy values are appended
formKeepEmpty(params) == params
form(params) ==
    [k \in DOMAIN params |->
        IF Truthy(params[k]) THEN params[k] ELSE Undefined]

\* the body exchangeCodeForToken sends for the posted form b
ExchangeForm(b) ==
    form([grant_type |-> "authorization_code", code |-> b.code,
          redirect_uri |-> b.redirect_uri, scope |-> b.scope,
          code_verifier |-> b.code_verifier, refresh_token |-> Undefined])

\* the body refreshAccessToken sends for the posted form b
RefreshForm(b) ==
    form([grant_type |-> "refresh_token", code |-> Undefined,
          redirect_uri |-> Undefined, scope |-> DefaultScopes,
          code_verifier |-> Undefined, refresh_token |-> b.refresh_token])

\* res.json() resolves on this body text
ParsesAsJson(text) == text = "null" \/ SubSeq(text, 1, 1) = "{"

\* the errorBody of a non-2xx vendor answer
ErrorBody(v) ==
    IF v.json
    THEN IF ParsesAsJson(v.text) THEN v.text ELSE "{error: server_error}"
    ELSE "{error: server_error, error_description: " \o v.text \o "}"

\* new OAuthHttpError(message, status, body)
OAuthHttpError(status, body) ==
    [kind |-> "error", name |-> "OAuthHttpError", status |-> status,
     body |-> body]

\* the outcome of exchangeCodeForToken / refreshAccessToken on answer v
TokenCallOutcome(v) ==
    IF ~(v.status \in 200..299)
    THEN OAuthHttpError(IF v.status # 0 THEN v.status ELSE 400, ErrorBody(v))
    ELSE IF ParsesAsJson(v.text)
    THEN [kind |-> "value", name |-> "", status |-> 0, body |-> v.text]
    ELSE [kind |-> "error", name |-> "SyntaxError", status |-> 0,
          body |-> ""]

\* the status the catch block answers with for an OAuthHttpError of status s
PassThrough(s) == IF s # 0 THEN s ELSE 400
Clamp(s) ==
    LET statusCandidate == IF s # 0 THEN s ELSE 400
    IN  IF statusCandidate \in allowedStatuses THEN statusCandidate ELSE 400

\* the response when the route throws: the framework's 500
InternalServerError == [status |-> 500, body |-> "Internal Server Error"]

\* the try/catch of the route around the outcome o of the vendor call
TokenReply(o) ==
    IF o.kind = "value" THEN [status |-> 200, body |-> o.body]
    ELSE IF o.name = "OAuthHttpError"
    THEN [status |-> Clamp(o.status),
          body |-> IF o.body = "null" THEN "{error: invalid_request}"
                   ELSE o.body]
    ELSE InternalServerError

\* a route that exchanges a code whatever the grant_type is
TokenRequestAnyGrant(b) ==
    /\ tokenPc \in {"idle", "done"}
    /\ tokenReq' = b
    /\ vendorRes' = NoVendorResponse
    /\ vendorReq' = ExchangeForm(b)
    /\ vendorCalls' = 1
    /\ tokenPc' = "exchange"
    /\ reply' = NoReply
    /\ UNCHANGED restVars
    /\ UNCHANGED <<execVars, pagerVars, boundaryVars>>

\* A request is posted to /token with form body b.
TokenRequest(b) ==
    /\ tokenPc \in {"idle", "done"}
    /\ tokenReq' = b
    /\ vendorRes' = NoVendorResponse
    /\ IF b.grant_type = "authorization_code"
       THEN /\ vendorReq' = ExchangeForm(b)
            /\ vendorCalls' = 1
            /\ tokenPc' = "exchange"
            /\ reply' = NoReply
       ELSE IF b.grant_type = "refresh_token"
       THEN /\ vendorReq' = RefreshForm(b)
            /\ vendorCalls' = 1
            /\ tokenPc' = "exchange"
            /\ reply' = NoReply
       ELSE /\ vendorReq' = NoForm
            /\ vendorCalls' = 0
            /\ tokenPc' = "done"
            /\ reply' = [status |-> 400,
                         body |-> "{error: unsupported_grant_type}"]
    /\ UNCHANGED restVars
    /\ UNCHANGED <<execVars, pagerVars, boundaryVars>>

\* a vendor call that is issued again when the answer is not 2xx
VendorAnswersRetries(v) ==
    /\ tokenPc = "exchange"
    /\ vendorRes' = v
    /\ IF v.status \in 200..299 \/ vendorCalls >= 2
       THEN /\ reply' = TokenReply(TokenCallOutcome(v))
            /\ tokenPc' = "done"
            /\ UNCHANGED vendorCalls
       ELSE /\ vendorCalls' = vendorCalls + 1
            /\ UNCHANGED <<reply, tokenPc>>
    /\ UNCHANGED restVars
    /\ UNCHANGED <<execVars, pagerVars, boundaryVars, tokenReq, vendorReq>>

\* The vendor token endpoint answers v.
VendorAnswers(v) ==
    /\ tokenPc = "exchange"
    /\ vendorRes' = v
    /\ reply' = TokenReply(TokenCallOutcome(v))
    /\ tokenPc' = "done"
    /\ UNCHANGED restVars
    /\ UNCHANGED <<execVars, pagerVars, boundaryVars, tokenReq, vendorReq,
                   vendorCalls>>

\* The fetch of the vendor token endpoint rejects: the route rethrows.
VendorFetchRejects ==
    /\ tokenPc = "exchange"
    /\ vendorRes' = NoVendorResponse
    /\ reply' = InternalServerError
    /\ tokenPc' = "done"
    /\ UNCHANGED restVars
    /\ UNCHANGED <<execVars, pagerVars, boundaryVars, tokenReq, vendorReq,
                   vendorCalls>>

TokenNext ==
    \/ \E b \in TokenForms : TokenRequest(b)
    \/ \E v \in VendorResponses : VendorAnswers(v)
    \/ VendorFetchRejects

SpecToken == Init /\ [][TokenNext]_vars

(* ----------------------------- GET /authorize -------------------------- *)

MaxParams == 3

\* the query parameters a client may send, as <<key, value>> pairs in order
ParamKeys == {"client_id", "state", "resource"}
ParamValues == {"v1", "v2"}
Queries ==
    UNION {[1..n -> ParamKeys \X ParamValues] : n \in 0..MaxParams}

\* c.env.QUICKBOOKS_CLIENT_ID
QUICKBOOKS_CLIENT_ID == "own-client-id"

\* URLSearchParams.set(k, v) on the list q: the first pair of key k gets the
\* value v and the other pairs of key k are removed; without such a pair
\* <<k, v>> is appended.  seen: a pair of key k was already passed.
RECURSIVE SetRec(_, _, _, _)
SetRec(q, k, v, seen) ==
    IF q = <<>>
    THEN IF seen THEN <<>> ELSE <<<<k, v>>>>
    ELSE IF Head(q)[1] = k
    THEN IF seen THEN SetRec(Tail(q), k, v, TRUE)
         ELSE <<<<k, v>>>> \o SetRec(Tail(q), k, v, TRUE)
    ELSE <<Head(q)>> \o SetRec(Tail(q), k, v, seen)

SearchParamsSet(q, k, v) == SetRec(q, k, v, FALSE)

\* url.searchParams.forEach: every pair but those of client_id is set on out
RECURSIVE CopyParams(_, _)
CopyParams(in, out) ==
    IF in = <<>> THEN out
    ELSE CopyParams(Tail(in),
                    IF Head(in)[1] # "client_id"
                    THEN SearchParamsSet(out, Head(in)[1], Head(in)[2])
                    ELSE out)

\* the query of quickbooksAuthUrl when the route redirects
AuthorizeLocation(q) ==
    SearchParamsSet(CopyParams(q, <<>>), "client_id", QUICKBOOKS_CLIENT_ID)

\* GET /authorize with query q is answered with c.redirect(...)
Authorize(q) ==
    /\ authReq' = q
    /\ authStatus' = 302
    /\ location' = AuthorizeLocation(q)
    /\ UNCHANGED <<execVars, pagerVars, boundaryVars, tokenVars, queryVars>>

AuthorizeNext == \E q \in Queries : Authorize(q)

SpecAuthorize == Init /\ [][AuthorizeNext]_vars

(* ----------------------- the QuickBooks query tools --------------------- *)
(* getCompanyInfo, getInvoices and getCustomers, run as invocation 1 of a   *)
(* QuickBooksMCP session; the upstream answers every 200 with one body.     *)

QueryTools == {"getCompanyInfo", "getInvoices", "getCustomers"}

\* the table a query tool selects from
TableOf(t) == IF t = "getInvoices" THEN "Invoice" ELSE "Customer"

\* TABLE_DEFAULT_SORT[table]
TABLE_SORT_BY_ID(table) == "Id DESC"
TABLE_DEFAULT_SORT(table) ==
    CASE table = "Customer" -> "Name ASC"
      [] table = "Invoice" -> "DueDate DESC"
      [] table = "Item" -> "Name ASC"
      [] table = "Payment" -> "Id DESC"
      [] table = "Purchase" -> "Id DESC"
      [] table = "Vendor" -> "Name ASC"

\* the query of getQueryData(table, offset, maxResults)
QueryString(table, offset, maxResults) ==
    "SELECT * FROM " \o table \o " ORDERBY " \o TABLE_DEFAULT_SORT(table)
    \o " STARTPOSITION " \o ToString(offset)
    \o " MAXRESULTS " \o ToString(maxResults)

\* the arguments of a validated call: page and pageSize, defaults 0 and 10
QueryArgs == [page : {0, 1}, pageSize : {10, 2}]

\* the JSON bodies the upstream may serve: without a QueryResponse, or with
\* one holding the row arrays of some tables
InvoiceArrays ==
    {NoArr, Arr(<<>>), Arr(<<"inv1", "inv2">>), Arr(<<"inv2", "inv1">>)}
CustomerArrays == {NoArr, Arr(<<"cus1">>)}
QueryBodies ==
    {NoBody} \cup
    {[hasQueryResponse |-> TRUE, Invoice |-> i, Customer |-> c] :
        i \in InvoiceArrays, c \in CustomerArrays}

\* resp.QueryResponse.Invoice / resp.QueryResponse.Customer
RowsOf(b, table) == IF table = "Invoice" THEN b.Invoice ELSE b.Customer

QueryInit ==
    /\ agent = "QuickBooksMCP"
    /\ props = [accessToken |-> "A0", refreshToken |-> "R0"]
    /\ pc = [i \in Invs |-> "idle"]
    /\ tool = [i \in Invs |-> ""]
    /\ svc = [i \in Invs |-> NewService(props)]
    /\ bearers = [i \in Invs |-> <<>>]
    /\ statuses = [i \in Invs |-> <<>>]
    /\ res = [i \in Invs |-> NoResponse]
    /\ rtSent = [i \in Invs |-> <<>>]
    /\ tokenRes = [i \in Invs |-> NoTokenResponse]
    /\ result = [i \in Invs |-> NoResult]
    /\ rejected = {}
    /\ PagerIdle
    /\ BoundaryIdle
    /\ TokenIdle
    /\ AuthorizeIdle
    /\ qArgs = NoQueryArgs
    /\ query = ""
    /\ upstream \in QueryBodies
    /\ payload = NoPayload

\* The handler of query tool t starts with arguments a: new service from
\* this.props, the service operation builds its URL and makeRequest issues
\* the request.
QueryToolStarts(t, a) ==
    /\ pc[1] = "idle"
    /\ t \in QueryTools
    /\ a \in QueryArgs
    /\ t = "getCompanyInfo" => a = [page |-> 0, pageSize |-> 10]
    /\ tool' = [tool EXCEPT ![1] = t]
    /\ qArgs' = a
    /\ svc' = [svc EXCEPT ![1] = NewService(props)]
    /\ query' = IF t = "getCompanyInfo" THEN ""
                ELSE QueryString(TableOf(t), a.page, a.pageSize)
    /\ bearers' = [bearers EXCEPT ![1] = Append(@, Authorization(svc'[1]))]
    /\ pc' = [pc EXCEPT ![1] = "fetch"]
    /\ UNCHANGED <<agent, props, statuses, res, rtSent, tokenRes, result,
                   rejected>>
    /\ UNCHANGED <<pagerVars, boundaryVars, tokenVars, authorizeVars,
                   upstream, payload>>

\* makeRequest returned the parsed body: the operation returns it (or the
\* row array of its table) and the handler passes that to formatResponse.
QueryReturned ==
    /\ pc[1] = "returned"
    /\ tool[1] \in QueryTools
    /\ IF tool[1] = "getCompanyInfo"
       THEN /\ payload' = BodyPayload(upstream)
            /\ pc' = [pc EXCEPT ![1] = "done"]
            /\ UNCHANGED result
       ELSE IF ~upstream.hasQueryResponse
       THEN /\ result' = [result EXCEPT ![1] = TypeError]
            /\ pc' = [pc EXCEPT ![1] = "thrown"]
            /\ UNCHANGED payload
       ELSE /\ payload' = RowsPayload(RowsOf(upstream, TableOf(tool[1])))
            /\ pc' = [pc EXCEPT ![1] = "done"]
            /\ UNCHANGED result
    /\ UNCHANGED <<agent, props, tool, svc, bearers, statuses, res, rtSent,
                   tokenRes, rejected>>
    /\ UNCHANGED <<pagerVars, boundaryVars, tokenVars, authorizeVars,
                   qArgs, query, upstream>>

QueryNext ==
    \/ \E t \in QueryTools, a \in QueryArgs : QueryToolStarts(t, a)
    \/ \E i \in Invs, r \in UpstreamResponses : FetchResolves(i, r)
    \/ \E i \in Invs : FetchRejects(i)
    \/ \E i \in Invs : \E t \in TokenResponses(i, nRefresh(i)) :
           RefreshResolves(i, t)
    \/ \E i \in Invs : RefreshRejects(i)
    \/ QueryReturned

SpecQuery == QueryInit /\ [][QueryNext]_vars

(* ---------------------- sequential invocations -------------------------- *)
(* The session of Spec when the client sends a tool call only after the     *)
(* previous one was answered.                                               *)

SeqInvoke(i, t) ==
    /\ \A j \in Invs : j < i => pc[j] \in {"returned", "thrown"}
    /\ Invoke(i, t)

SeqNext ==
    \/ \E i \in Invs, t \in Tools(agent) : SeqInvoke(i, t)
    \/ \E i \in Invs, r \in UpstreamResponses : FetchResolves(i, r)
    \/ \E i \in Invs : FetchRejects(i)
    \/ \E i \in Invs : \E t \in TokenResponses(i, nRefresh(i)) :
           RefreshResolves(i, t)
    \/ \E i \in Invs : RefreshRejects(i)
    \/ \E i \in Invs, r \in UpstreamResponses : RetryResolves(i, r)
    \/ \E i \in Invs : RetryRejects(i)

SpecSequential == Init /\ [][SeqNext]_vars

(* --------------- getUserCalendarEvents without its history -------------- *)
(* The page loop on chains that end and on chains that link back, with the  *)
(* accumulator and the request history left out so that the loop may go on  *)
(* without bound in a finite state space.  Every fetch eventually answers.  *)

\* the chains of n pages whose last page links back to page b
LoopingChains(n) ==
    { [k \in 1..n |-> [value |-> f[k],
                       next  |-> IF k < n THEN k + 1 ELSE b]] :
        f \in [1..n -> PageBodies], b \in 1..n }

AllChains == Chains \cup UNION { LoopingChains(n) : n \in 1..MaxPages }

PagerLiveInit ==
    /\ agent = "MicrosoftMCP"
    /\ props = [accessToken |-> "A0", refreshToken |-> "R0"]
    /\ pc = [i \in Invs |-> "idle"]
    /\ tool = [i \in Invs |-> ""]
    /\ svc = [i \in Invs |-> NewService(props)]
    /\ bearers = [i \in Invs |-> <<>>]
    /\ statuses = [i \in Invs |-> <<>>]
    /\ res = [i \in Invs |-> NoResponse]
    /\ rtSent = [i \in Invs |-> <<>>]
    /\ tokenRes = [i \in Invs |-> NoTokenResponse]
    /\ result = [i \in Invs |-> NoResult]
    /\ rejected = {}
    /\ chain \in AllChains
    /\ url = 0
    /\ events = <<>>
    /\ calls = <<>>
    /\ BoundaryIdle
    /\ TokenIdle
    /\ RestIdle

\* The getUserCalendarEvents handler starts and requests the first page.
LiveGetUserCalendarEvents ==
    /\ pc[1] = "idle"
    /\ tool' = [tool EXCEPT ![1] = "getUserCalendarEvents"]
    /\ svc' = [svc EXCEPT ![1] = NewService(props)]
    /\ url' = 1
    /\ pc' = [pc EXCEPT ![1] = "fetch"]
    /\ UNCHANGED <<agent, props, bearers, statuses, res, rtSent, tokenRes,
                   result, rejected, chain, events, calls>>
    /\ UNCHANGED <<boundaryVars, tokenVars, restVars>>

\* a loop that returns after its first page
LivePageReturnedOnePage ==
    /\ pc[1] = "returned"
    /\ tool[1] = "getUserCalendarEvents"
    /\ url' = 0
    /\ pc' = [pc EXCEPT ![1] = "done"]
    /\ result' = [result EXCEPT ![1] = Value("[events]")]
    /\ UNCHANGED <<agent, props, tool, svc, bearers, statuses, res, rtSent,
                   tokenRes, rejected, chain, events, calls>>
    /\ UNCHANGED <<boundaryVars, tokenVars, restVars>>

\* makeRequest returned the page of url: its rows are validated, url becomes
\* the page's next link and the loop requests that page or ends.
LivePageReturned ==
    /\ pc[1] = "returned"
    /\ tool[1] = "getUserCalendarEvents"
    /\ IF result[1].text # "{data}"
       THEN /\ result' = [result EXCEPT ![1] = TypeError]
            /\ pc' = [pc EXCEPT ![1] = "thrown"]
            /\ UNCHANGED url
       ELSE IF SomeInvalid(chain[url].value)
       THEN /\ result' = [result EXCEPT ![1] = ZodError]
            /\ pc' = [pc EXCEPT ![1] = "thrown"]
            /\ UNCHANGED url
       ELSE /\ url' = chain[url].next
            /\ IF url' # 0
               THEN /\ pc' = [pc EXCEPT ![1] = "fetch"]
                    /\ UNCHANGED result
               ELSE /\ pc' = [pc EXCEPT ![1] = "done"]
                    /\ result' = [result EXCEPT ![1] = Value("[events]")]
    /\ UNCHANGED <<agent, props, tool, svc, bearers, statuses, res, rtSent,
                   tokenRes, rejected, chain, events, calls>>
    /\ UNCHANGED <<boundaryVars, tokenVars, restVars>>

PagerLiveNext ==
    \/ LiveGetUserCalendarEvents
    \/ \E i \in Invs, r \in UpstreamResponses : LiveFetchResolves(i, r)
    \/ \E i \in Invs : LiveFetchRejects(i)
    \/ \E i \in Invs : \E t \in TokenResponses(i, 1) :
           LiveRefreshResolves(i, t)
    \/ \E i \in Invs : LiveRefreshRejects(i)
    \/ \E i \in Invs, r \in UpstreamResponses : LiveRetryResolves(i, r)
    \/ LivePageReturned

\* every fetch eventually answers and the loop's continuation then runs
PagerLiveFairness == LiveFairness /\ WF_vars(LivePageReturned)

SpecPagerLive == PagerLiveInit /\ [][PagerLiveNext]_vars /\ PagerLiveFairness

(* ------------------------------- claims -------------------------------- *)

Ended(i) == pc[i] \in {"returned", "thrown"}

\* C1: every executor call issues at most one refresh call and at most two
\* upstream requests (the original and one retry), whatever the upstream
\* and the token endpoint answer.
C1_AtMostOneRefreshAndRetry ==
    \A i \in Invs : nRefresh(i) <= 1 /\ nFetch(i) <= 2

\* C2: a call whose original and retried request are both answered 401
\* ends with an error, never with a returned value, and issues no third
\* upstream request.
C2_SecondUnauthorizedIsTerminal ==
    \A i \in Invs :
        (Len(statuses[i]) >= 2 /\ statuses[i][1] = 401 /\ statuses[i][2] = 401)
        => /\ nFetch(i) <= 2
           /\ Ended(i) => result[i].kind = "error"

\* C3: a call answered 401 and then 2xx on the retry made exactly one
\* refresh call, and the retried request carried the access token that this
\* refresh returned, not the token of the original request.
C3_RetryCarriesRefreshedToken ==
    \A i \in Invs :
        (Len(statuses[i]) = 2 /\ statuses[i][1] = 401
                              /\ statuses[i][2] \in 200..299)
        => /\ nRefresh(i) = 1
           /\ nFetch(i) = 2
           /\ tokenRes[i].status \in 200..299
           /\ bearers[i][2] = tokenRes[i].access_token
           /\ bearers[i][2] # bearers[i][1]

C3_Witness ==
    \E i \in Invs : statuses[i] = <<401, 200>> /\ pc[i] = "returned"

\* C4: once a request carrying access token T was answered 401, no later
\* upstream request of the session carries T unless a refresh succeeded in
\* between; a later invocation does not start again with the rejected token.
C4_NoReuseOfRejectedToken ==
    [][\A i \in Invs :
          Len(bearers'[i]) > Len(bearers[i])
          => bearers'[i][Len(bearers'[i])] \notin rejected']_vars

\* C5: a call whose first upstream response is neither 2xx nor 401 issues
\* no refresh and no retry, leaves the held credential as it was, and fails
\* with an error carrying the status and status text of that response.
C5_OtherErrorFailsImmediately ==
    \A i \in Invs :
        (Len(statuses[i]) >= 1
           /\ statuses[i][1] \notin ((200..299) \cup {401, NetErr}))
        => /\ nRefresh(i) = 0
           /\ nFetch(i) = 1
           /\ Len(statuses[i]) = 1
           /\ svc[i].accessToken = props.accessToken
           /\ svc[i].refreshToken = props.refreshToken
           /\ pc[i] = "thrown"
           /\ result[i].kind = "error"
           /\ result[i].name \in {"QuickBooks API error", "Microsoft API error"}
           /\ result[i].status = statuses[i][1]
           /\ res[i].status = statuses[i][1]
           /\ result[i].text = res[i].statusText

C5_Witness ==
    \E i \in Invs : statuses[i] = <<403>> /\ pc[i] = "thrown"
                    /\ result[i].text = "Forbidden"

\* C6: within one invocation a retried request is issued only in the step
\* in which the refresh call completes successfully, after the held
\* credential was updated from it, and it carries the updated token; none is
\* issued while the refresh is pending or once the call has failed.
C6_RetryOnlyAfterRefresh ==
    [][\A i \in Invs :
          (Len(bearers'[i]) > Len(bearers[i]) /\ Len(bearers[i]) >= 1)
          => /\ pc[i] = "refresh"
             /\ tokenRes'[i].status \in 200..299
             /\ tokenRes'[i].access_token # Undefined
             /\ svc'[i].accessToken = tokenRes'[i].access_token
             /\ bearers'[i][Len(bearers'[i])] = svc'[i].accessToken
             /\ rtSent'[i] = rtSent[i]]_vars

C6_Witness ==
    \E i \in Invs : nFetch(i) = 2 /\ pc[i] \in {"fetch", "retry"}
                    /\ bearers[i][2] = tokenRes[i].access_token

\* C7: when the fetch of an upstream request rejects, the call fails in
\* that step: no request and no refresh call is issued, the held credential
\* is unchanged, and a failed call issues nothing afterwards.
C7_TransportFailureFailsImmediately ==
    [][\A i \in Invs :
          /\ (Len(statuses'[i]) > Len(statuses[i])
                /\ statuses'[i][Len(statuses'[i])] = NetErr)
             => /\ pc'[i] = "thrown"
                /\ result'[i].kind = "error"
                /\ svc'[i] = svc[i]
                /\ bearers'[i] = bearers[i]
                /\ rtSent'[i] = rtSent[i]
          /\ pc[i] = "thrown"
             => /\ pc'[i] = "thrown"
                /\ svc'[i] = svc[i]
                /\ bearers'[i] = bearers[i]
                /\ rtSent'[i] = rtSent[i]]_vars

C7_Witness ==
    /\ \E i \in Invs : statuses[i] = <<NetErr>> /\ pc[i] = "thrown"
                       /\ nFetch(i) = 1 /\ nRefresh(i) = 0
    /\ \E i \in Invs : statuses[i] = <<401, NetErr>> /\ pc[i] = "thrown"
                       /\ nFetch(i) = 2 /\ nRefresh(i) = 1

\* C8: after a successful refresh the held access token is the one the
\* vendor returned, and the held refresh token is the vendor's if it
\* returned one and is otherwise what it was before the refresh.
C8_RefreshUpdatesCredential ==
    [][\A i \in Invs :
          (pc[i] = "refresh" /\ pc'[i] # "refresh"
             /\ tokenRes'[i].status \in 200..299)
          => /\ svc'[i].accessToken = tokenRes'[i].access_token
             /\ svc'[i].refreshToken =
                  IF tokenRes'[i].refresh_token \notin {Undefined, ""}
                  THEN tokenRes'[i].refresh_token
                  ELSE svc[i].refreshToken]_vars

C8_Witness ==
    \E i, j \in Invs :
        /\ tokenRes[i].status = 200 /\ tokenRes[j].status = 200
        /\ nRefresh(i) = 1 /\ nRefresh(j) = 1
        /\ tokenRes[i].refresh_token = Undefined
        /\ svc[i].refreshToken = props.refreshToken
        /\ tokenRes[j].refresh_token = VendorRefreshToken(j, 1)
        /\ svc[j].refreshToken = VendorRefreshToken(j, 1)

\* C9: refresh-and-update is mutually exclusive per session: never are two
\* refresh requests of the session in flight, and no invocation reads the
\* credential to build a request while another invocation's refresh is
\* between its request and its credential update.
C9_RefreshMutuallyExclusive ==
    [][/\ Cardinality({i \in Invs : pc'[i] = "refresh"}) <= 1
       /\ \A i \in Invs :
             Len(bearers'[i]) > Len(bearers[i])
             => \A j \in Invs \ {i} : pc[j] # "refresh"]_vars

\* C10: two invocations of a session that both get 401 on their original
\* request issue one refresh call each, two in total, both sent with the
\* session's refresh token, and each retries with the access token its own
\* refresh returned.
C10_IndependentRefreshes ==
    \A i, j \in Invs :
        (i # j /\ Len(statuses[i]) >= 1 /\ statuses[i][1] = 401
               /\ Len(statuses[j]) >= 1 /\ statuses[j][1] = 401)
        => /\ nRefresh(i) + nRefresh(j) = 2
           /\ \A k \in 1..nRefresh(i) : rtSent[i][k] = props.refreshToken
           /\ nFetch(i) >= 2 => bearers[i][2] = VendorAccessToken(i, 1)

\* the validated rows of the pages 1..n of chain c, in page order
RECURSIVE RowsUpTo(_, _)
RowsUpTo(c, n) ==
    IF n = 0 THEN <<>>
    ELSE RowsUpTo(c, n - 1)
         \o [k \in 1..Len(c[n].value) |-> [c[n].value[k] EXCEPT !.extra = Undefined]]

\* C11: on a chain of N linked pages getUserCalendarEvents calls makeRequest
\* once per page in link order; when it returns, exactly N requests were
\* answered 2xx (exactly N requests were issued when none was answered 401)
\* and the result is the concatenation of the pages' validated rows in page
\* order and in-page order, nothing dropped, reordered or deduplicated.
C11_FetchAllConcatenatesPages ==
    /\ Len(calls) <= Len(chain)
    /\ \A k \in 1..Len(calls) : calls[k] = k
    /\ pc[1] = "done"
       => /\ Len(calls) = Len(chain)
          /\ events = RowsUpTo(chain, Len(chain))
          /\ Cardinality({k \in 1..Len(statuses[1]) :
                            statuses[1][k] \in 200..299}) = Len(chain)
          /\ (\A k \in 1..Len(statuses[1]) : statuses[1][k] # 401)
             => nFetch(1) = Len(chain)

C11_Witness ==
    /\ pc[1] = "done"
    /\ Len(chain) = 3
    /\ nFetch(1) = 3
    /\ Len(events) = 6
    /\ events[1] # events[3]
    /\ events[1] = events[4]

\* C12: every tool invocation that has started eventually ends, returned
\* (Enveloped-Success) or thrown (Enveloped-Failure), whenever every network
\* call eventually answers; none stays in its executor call for ever.
C12_EveryInvocationTerminates ==
    \A i \in Invs : (pc[i] # "idle") ~> (pc[i] \in {"returned", "thrown"})

C15_MalformedBearerRejected ==
    (stage # "idle" /\ request.authorization \in MalformedAuthorizations)
    => /\ http = 401
       /\ stage = "unauthorized"
       /\ props = NoProps
       /\ pc[1] = "idle"
       /\ nFetch(1) = 0
       /\ nRefresh(1) = 0
       /\ envelope = NoEnvelope

\* a call with a lower-case scheme was rejected after a call that succeeded
C15_Witness ==
    /\ stage = "unauthorized"
    /\ request.authorization = "bearer A0"
    /\ prev = "success"

\* C16: a tool call without the vendor refresh-token header never reaches
\* tool logic, and the session's props never hold an empty refresh token.
C16_RefreshHeaderRequired ==
    /\ (stage # "idle" /\ request.refreshHeader = Undefined)
       => (pc[1] = "idle" /\ stage # "validated")
    /\ props.refreshToken # ""
    /\ \A i \in Invs : pc[i] # "idle" => svc[i].refreshToken # ""

\* C17: when the vendor token endpoint answers a /token request with a
\* non-2xx status s, the route answers with s if s is in the allow-list and
\* with 400 otherwise, so never with a status outside the allow-list.
C17_VendorStatusClamped ==
    (tokenPc = "done" /\ vendorRes.status # NetErr
     /\ vendorRes.status \notin 200..299)
    => /\ reply.status \in allowedStatuses
       /\ vendorRes.status \in allowedStatuses
          => reply.status = vendorRes.status
       /\ vendorRes.status \notin allowedStatuses => reply.status = 400

\* the vendor answered a refresh with 402, outside the allow-list
C17_Witness ==
    /\ tokenPc = "done"
    /\ vendorRes.status = 402
    /\ reply.status = 400
    /\ tokenReq.grant_type = "refresh_token"

\* C18: a /token request whose grant_type is absent or is neither
\* authorization_code nor refresh_token is answered 400 with
\* {error: unsupported_grant_type} and sends nothing to the vendor.
C18_UnsupportedGrantType ==
    (tokenPc # "idle"
     /\ tokenReq.grant_type \in {Undefined, "client_credentials"})
    => /\ tokenPc = "done"
       /\ reply = [status |-> 400, body |-> "{error: unsupported_grant_type}"]
       /\ vendorCalls = 0
       /\ vendorReq = NoForm
       /\ vendorRes = NoVendorResponse

\* a request without grant_type was answered
C18_Witness ==
    /\ tokenPc = "done"
    /\ tokenReq.grant_type = Undefined
    /\ tokenReq.code_verifier # Undefined
    /\ reply.status = 400

\* C19: whenever the vendor token endpoint answers a refresh with a non-2xx
\* status, the refresh fails with an OAuthHttpError that carries that status;
\* this includes the refresh a tool invocation performs after a 401.
C19_RefreshFailureCarriesStatus ==
    \A i \in Invs :
        (/\ pc[i] = "thrown"
         /\ tokenRes[i].status # NetErr
         /\ tokenRes[i].status \notin 200..299)
        => /\ result[i].name = "OAuthHttpError"
           /\ result[i].status = tokenRes[i].status

\* C20 (as stated): for every authorization_code request the code_verifier
\* sent to the vendor equals the one the caller supplied, for every supplied
\* value, and the exchange is issued whether or not one was supplied.
C20_VerifierForwardedForEveryValue ==
    (tokenPc # "idle" /\ tokenReq.grant_type = "authorization_code")
    => /\ vendorCalls = 1
       /\ vendorReq.code_verifier = tokenReq.code_verifier

\* C20 (amended): for every authorization_code request the exchange is
\* issued with the caller's code unchecked; a non-empty code_verifier is sent
\* to the vendor exactly as supplied, and an absent or empty one yields a
\* vendor request without a code_verifier parameter.
C20_NonEmptyVerifierForwarded ==
    (tokenPc # "idle" /\ tokenReq.grant_type = "authorization_code")
    => /\ vendorCalls = 1
       /\ vendorReq.grant_type = "authorization_code"
       /\ vendorReq.code = tokenReq.code
       /\ tokenReq.code_verifier \notin {Undefined, ""}
          => vendorReq.code_verifier = tokenReq.code_verifier
       /\ tokenReq.code_verifier \in {Undefined, ""}
          => vendorReq.code_verifier = Undefined

\* an exchange posted with an empty verifier was issued and answered 200
C20_Witness ==
    /\ tokenPc = "done"
    /\ tokenReq.grant_type = "authorization_code"
    /\ tokenReq.code_verifier = ""
    /\ vendorReq.code_verifier = Undefined
    /\ reply.status = 200

\* C21: a call of exchangeCodeForToken or refreshAccessToken sends one POST
\* to the vendor token endpoint and none after a failure, and the request it
\* sends is determined by its arguments alone, whatever requests the route
\* served before.
C21_OnePostDeterminedByArguments ==
    /\ tokenPc # "idle" => vendorCalls <= 1
    /\ (tokenPc # "idle" /\ tokenReq.grant_type = "authorization_code")
       => /\ vendorCalls = 1
          /\ vendorReq =
               [grant_type |-> "authorization_code",
                code |-> tokenReq.code,
                redirect_uri |-> tokenReq.redirect_uri,
                scope |-> tokenReq.scope,
                code_verifier |-> IF tokenReq.code_verifier = ""
                                  THEN Undefined
                                  ELSE tokenReq.code_verifier,
                refresh_token |-> Undefined]
    /\ (tokenPc # "idle" /\ tokenReq.grant_type = "refresh_token")
       => /\ vendorCalls = 1
          /\ vendorReq =
               [grant_type |-> "refresh_token", code |-> Undefined,
                redirect_uri |-> Undefined, scope |-> DefaultScopes,
                code_verifier |-> Undefined,
                refresh_token |-> tokenReq.refresh_token]

\* a refresh answered 500 by the vendor has ended after its one request
C21_Witness ==
    /\ tokenPc = "done"
    /\ tokenReq.grant_type = "refresh_token"
    /\ vendorRes.status = 500
    /\ vendorCalls = 1
    /\ reply.status = 500

\* the values of key k in the query q, in order
ValuesOf(q, k) ==
    LET sel == SelectSeq(q, LAMBDA kv : kv[1] = k)
    IN  [i \in 1..Len(sel) |-> sel[i][2]]

\* C22: GET /authorize answers with a redirect whose query has, for every
\* inbound parameter other than client_id, exactly its inbound values, and
\* whose only client_id is the configured one.
C22_AuthorizeProxiesEveryParameter ==
    authStatus # 0
    => /\ authStatus = 302
       /\ ValuesOf(location, "client_id") = <<QUICKBOOKS_CLIENT_ID>>
       /\ \A k \in ParamKeys \ {"client_id"} :
              ValuesOf(location, k) = ValuesOf(authReq, k)

\* C23: no event that CalendarEventSchema.parse returned has a member the
\* schema does not declare, every one has the required members, and a page
\* holding a row without a required member is never consumed: its parse
\* throws a ZodError and the operation fails.
C23_ValidatorStripsAndRejects ==
    /\ \A k \in 1..Len(events) :
           /\ events[k].extra = Undefined
           /\ events[k].id # Undefined
           /\ events[k].subject # Undefined
    /\ \A k \in 1..Len(calls) :
           (k < Len(calls) \/ pc[1] = "done")
           => \A j \in 1..Len(chain[calls[k]].value) :
                  /\ chain[calls[k]].value[j].id # Undefined
                  /\ chain[calls[k]].value[j].subject # Undefined
    /\ (pc[1] = "thrown" /\ result[1] = ZodError)
       => \E j \in 1..Len(chain[url].value) :
              chain[url].value[j].subject = Undefined

\* a row with an undeclared member was stripped and kept, and a later page
\* with a row lacking its subject was rejected
C23_Witness ==
    /\ pc[1] = "thrown"
    /\ result[1] = ZodError
    /\ \E k \in 1..Len(events) : events[k].id = "e2"
    /\ \E j \in 1..Len(chain[1].value) : chain[1].value[j].extra = "x"

\* C24: what a service operation returns from an upstream payload, and the
\* handler puts in the tool envelope, has been validated: a query tool
\* returns rows only of an answer that has the shape declared for it
\* (QuickBooksQueryResponse: the row array of the selected table and of no
\* other table).
C24_EveryPayloadValidated ==
    (pc[1] = "done" /\ tool[1] \in {"getInvoices", "getCustomers"})
    => /\ payload.rows.defined
       /\ upstream.Invoice.defined = (tool[1] = "getInvoices")
       /\ upstream.Customer.defined = (tool[1] = "getCustomers")

\* C25: getInvoices sends the query that selects from Invoice ordered by
\* DueDate DESC with the call's page and page size, sends it once when no
\* request is answered 401, and what it hands to the envelope is the Invoice
\* array of the upstream's answer, in the upstream's order, whatever other
\* tables the answer holds.
C25_GetInvoicesReturnsInvoiceRows ==
    (tool[1] = "getInvoices" /\ pc[1] # "idle")
    => /\ query = "SELECT * FROM Invoice ORDERBY DueDate DESC STARTPOSITION "
                  \o ToString(qArgs.page) \o " MAXRESULTS "
                  \o ToString(qArgs.pageSize)
       /\ (pc[1] = "done" /\ \A k \in 1..Len(statuses[1]) :
                                 statuses[1][k] # 401)
          => nFetch(1) = 1
       /\ pc[1] = "done"
          => /\ upstream.hasQueryResponse
             /\ payload.kind = "rows"
             /\ payload.rows = upstream.Invoice
             /\ statuses[1][Len(statuses[1])] \in 200..299

\* getInvoices returned two invoices of an answer that also holds customers
C25_Witness ==
    /\ tool[1] = "getInvoices"
    /\ pc[1] = "done"
    /\ payload.rows = Arr(<<"inv2", "inv1">>)
    /\ upstream.Customer = Arr(<<"cus1">>)
    /\ qArgs = [page |-> 1, pageSize |-> 2]
    /\ nFetch(1) = 1

\* C26: an executor call returns a value only if the last upstream response
\* it received was 2xx; a non-2xx answer to the request retried after a
\* refresh is a failure.
C26_ValueOnlyAfterSuccess ==
    \A i \in Invs :
        pc[i] = "returned"
        => /\ Len(statuses[i]) >= 1
           /\ statuses[i][Len(statuses[i])] \in 200..299

\* the outcome of a call whose first request ends with r: a response other
\* than 401, or NoResponse for a rejected fetch
FirstOutcome(i, r) ==
    IF r = NoResponse THEN FetchError
    ELSE IF ~(r.status \in 200..299) THEN ApiError(agent, r)
    ELSE IF tool[i] = "deleteCalendarEvent" THEN Void
    ELSE IF r.body = "" THEN JsonError ELSE Value(r.body)

\* C27: a call that got 401, refreshed and then got response R on the retry
\* ends as a call that got R as its first response ends: same value or same
\* failure.
C27_RetryOutcomeEqualsFirstOutcome ==
    \A i \in Invs :
        (/\ pc[i] \in {"returned", "thrown"}
         /\ Len(statuses[i]) = 2
         /\ statuses[i][1] = 401
         /\ statuses[i][2] # 401
         /\ res[i].status = statuses[i][2])
        => result[i] = FirstOutcome(i, res[i])

\* C28: when the refresh after a 401 fails, by a non-2xx answer of the token
\* endpoint or by a failed request, the call fails there: no further
\* upstream request is issued and the held access and refresh token are
\* what they were before the refresh.
C28_FailedRefreshChangesNothing ==
    [][\A i \in Invs :
          (pc[i] = "refresh" /\ pc'[i] # "refresh"
             /\ ~(tokenRes'[i].status \in 200..299))
          => /\ pc'[i] = "thrown"
             /\ result'[i].kind = "error"
             /\ svc'[i] = svc[i]
             /\ bearers'[i] = bearers[i]
             /\ rtSent'[i] = rtSent[i]]_vars

\* the refresh of a call was answered 400 and the call has failed with its
\* one request and the session's tokens
C28_Witness ==
    \E i \in Invs :
        /\ pc[i] = "thrown"
        /\ tokenRes[i].status = 400
        /\ result[i] = RefreshError(tokenRes[i])
        /\ nRefresh(i) = 1
        /\ nFetch(i) = 1
        /\ svc[i] = NewService(props)

\* the refresh tokens invocation i sent and has replaced since
Superseded(i) ==
    {rtSent[i][k] : k \in 1..nRefresh(i)} \ {svc[i].refreshToken}

\* C29: with sequential invocations, once a refresh has succeeded and the
\* vendor has returned a new refresh token, no later refresh request of the
\* session sends the replaced one.
C29_NoSupersededRefreshToken ==
    \A i, j \in Invs :
        i < j => \A k \in 1..nRefresh(j) : rtSent[j][k] \notin Superseded(i)

\* following the next links of chain c from page k for at most n pages
\* comes to a page without a next link
RECURSIVE LinksEnd(_, _, _)
LinksEnd(c, k, n) ==
    IF k = 0 THEN TRUE
    ELSE IF n = 0 THEN FALSE
    ELSE LinksEnd(c, c[k].next, n - 1)

FiniteChain == LinksEnd(chain, 1, Len(chain))

\* C30: getUserCalendarEvents ends, done or failed, whenever the chain of
\* next links is finite and every fetch answers; once it is done after a
\* page without a next link it stays done and requests nothing more; on a
\* chain of links that never ends it is never done.
C30_PagerTerminatesIffChainEnds ==
    /\ (FiniteChain /\ pc[1] # "idle") ~> (pc[1] \in {"done", "thrown"})
    /\ [](pc[1] = "done" => (url = 0 /\ [](pc[1] = "done")))
    /\ [](~FiniteChain => pc[1] # "done")

\* on a chain that links back, page 1 is being requested again after a page
\* was received and consumed
C30_Witness ==
    /\ ~FiniteChain
    /\ pc[1] = "fetch"
    /\ url = 1
    /\ res[1].status = 200
    /\ Len(chain) = 2

\* the final status of each makeRequest call in a history of statuses: a 401
\* that has an answer after it is followed by the status of its retry
RECURSIVE PageOutcomes(_)
PageOutcomes(st) ==
    IF st = <<>> THEN <<>>
    ELSE IF st[1] = 401 /\ Len(st) >= 2
    THEN <<st[2]>> \o PageOutcomes(SubSeq(st, 3, Len(st)))
    ELSE <<st[1]>> \o PageOutcomes(Tail(st))

\* the page of the k-th request was answered 200 and all its rows are valid
PageSucceeded(k) ==
    /\ k <= Len(PageOutcomes(statuses[1]))
    /\ PageOutcomes(statuses[1])[k] = 200
    /\ ~SomeInvalid(chain[calls[k]].value)

\* C31: getUserCalendarEvents is all-or-nothing: a page is requested only
\* after every earlier page was fetched and validated, the events are
\* returned only when every requested page succeeded, and a failed run ends
\* with an error that carries no rows.
C31_AllOrNothing ==
    /\ \A k \in 1..(Len(calls) - 1) : PageSucceeded(k)
    /\ pc[1] = "done" => \A k \in 1..Len(calls) : PageSucceeded(k)
    /\ pc[1] = "thrown" => result[1].kind = "error"
    /\ result[1].kind = "value" /\ result[1].text = "[events]"
           => pc[1] = "done"

\* the second of three pages has an invalid row: the run fails with the rows
\* of the first page accumulated and the third page never requested
C31_Witness ==
    /\ pc[1] = "thrown"
    /\ result[1] = ZodError
    /\ Len(chain) = 3
    /\ calls = <<1, 2>>
    /\ events # <<>>

\* C32: in one multi-page getUserCalendarEvents fetch every page request has
\* its own single refresh and retry: a retry answered 401 ends the run with
\* no further refresh or request, there are never more refreshes than pages
\* requested, every request carries the service's current access token, and
\* no request carries a token that an earlier request of the run saw
\* answered 401.
C32_PerPageRefreshAndFreshToken ==
    /\ \A j \in 1..(Len(statuses[1]) - 1) :
           statuses[1][j] = 401 /\ statuses[1][j + 1] = 401
               => /\ Len(statuses[1]) = j + 1
                  /\ Len(bearers[1]) = j + 1
                  /\ pc[1] \in {"returned", "thrown"}
    /\ Len(rtSent[1]) <= Len(calls)
    /\ Len(bearers[1]) <= 2 * Len(calls)
    /\ bearers[1] # <<>> =>
           bearers[1][Len(bearers[1])] = svc[1].accessToken
    /\ \A j \in 1..Len(statuses[1]) : \A k \in 1..Len(bearers[1]) :
           j < k /\ statuses[1][j] = 401 => bearers[1][k] # bearers[1][j]

\* both of two pages were answered 401, refreshed and retried; the first
\* request for page 2 carried the token refreshed during page 1
C32_Witness ==
    /\ calls = <<1, 2>>
    /\ statuses[1] = <<401, 200, 401, 200>>
    /\ Len(rtSent[1]) = 2
    /\ Len(bearers[1]) = 4
    /\ bearers[1][3] = bearers[1][2]
    /\ bearers[1][2] # bearers[1][1]
    /\ bearers[1][4] # bearers[1][3]

\* C33: getInvoices and getCustomers treat page as a 0-indexed page number:
\* for page p and pageSize s the query sent upstream asks for the s rows
\* that follow the first p * s rows, whether STARTPOSITION counts the rows
\* from 0 or from 1.
C33_PageIsPageNumber ==
    tool[1] \in {"getInvoices", "getCustomers"} /\ pc[1] # "idle" =>
        query \in { QueryString(TableOf(tool[1]),
                                qArgs.page * qArgs.pageSize + base,
                                qArgs.pageSize) : base \in {0, 1} }

\* the bodies of an OAuth error response of the /token route
OAuthErrorBodies ==
    { ErrorBody(v) : v \in VendorResponses } \cup {"{error: invalid_request}"}

\* C34: every answered /token request is answered with the vendor's token
\* response and status 200, or with an OAuth error body and a status of the
\* allow-list, or with 400 unsupported_grant_type; in particular a request
\* whose vendor fetch was rejected is answered with an OAuth error response.
C34_TokenAnswerIsOAuthShaped ==
    tokenPc = "done" =>
        \/ /\ reply.status = 200
           /\ vendorRes.status \in 200..299
           /\ reply.body = vendorRes.text
        \/ /\ reply.status \in allowedStatuses
           /\ reply.body \in OAuthErrorBodies
        \/ reply = [status |-> 400, body |-> "{error: unsupported_grant_type}"]

====
